---------------------------- MODULE Spec2Model ----------------------------
(***************************************************************************)
(* Models of the auxiliary scripts of rust-fitsio:                         *)
(*   - fitsio/docker/build_all.py      (version-matrix build/run driver)   *)
(*   - fitsiobenchmark/generate_data.py (frame generator)                  *)
(*   - fitsiobenchmark/python_run.py   (read/arithmetic benchmark)         *)
(*   - filegen/vector_columns.py       (vector-column fixture generator)   *)
(* The scripts share no state; each has its own specification over its own *)
(* variables, the variables of the other scripts being held idle.          *)
(***************************************************************************)
EXTENDS Integers, Sequences, FiniteSets, Bags, TLC

VARIABLES
    \* ---- build_all.py
    pc,         \* position of the driver in the script
    fs,         \* working directory: file name -> sequence of written chunks
    template,   \* the template text read at lines 40-41 (sequence of pieces)
    i,          \* 1-based position of `version` in VERSIONS in the current loop
    outfile,    \* name of the file currently open for writing, "" when none
    log,        \* external events in order: files closed, commands invoked
    results0,   \* results.txt in the directory before the driver started (history)
    \* ---- generate_data.py
    gpc,        \* position inside generate_frame
    preset,     \* the arguments of the call (one of the four partials)
    data,       \* the array `data`, row after row
    frame,      \* directory of frames: file name -> array written
    \* ---- python_run.py
    bpc,        \* position inside timeit
    clock,      \* the last reading of time.time()
    start_time, \* start_time of the current iteration
    times,      \* the samples appended to `times`
    ncalls,     \* calls of main so far (history)
    iter,       \* iterations of the loop completed
    min_time,   \* the value returned by timeit and printed
    \* ---- vector_columns.py
    xpc,        \* position of the fixture script
    disk,       \* file system: path -> content of the file at that path
    output,     \* args.output
    hdu,        \* the table returned by gen_file
    exits       \* one record per finished invocation: path, exit code, file left

driverVars == <<pc, fs, template, i, outfile, log, results0>>
genVars    == <<gpc, preset, data, frame>>
benchVars  == <<bpc, clock, start_time, times, ncalls, iter, min_time>>
fixVars    == <<xpc, disk, output, hdu, exits>>
vars       == <<driverVars, genVars, benchVars, fixVars>>
notDriver  == <<genVars, benchVars, fixVars>>
notGen     == <<driverVars, benchVars, fixVars>>
notBench   == <<driverVars, genVars, fixVars>>
notFix     == <<driverVars, genVars, benchVars>>

(***************************************************************************)
(*                      build_all.py : the build driver                    *)
(***************************************************************************)

\* The version list of the script, duplicate '3080' included.
AllVersions ==
    << "3080", "3080", "3090", "3130", "3140", "3181", "3200", "3210",
       "3230", "3240", "3250", "3260", "3270", "3280", "3290", "3300",
       "3310", "3330", "3340", "3350", "3360", "3370", "3380", "3390",
       "3410", "3420" >>

\* Bound: the driver is checked on the first NVersions entries of the list
\* (the run phase records one of two flags per entry, 2^26 result files).
NVersions == 5

VERSIONS == SubSeq(AllVersions, 1, NVersions)

TEMPLATE_URL(version) ==
    "ftp://heasarc.gsfc.nasa.gov/software/fitsio/c/cfitsio" \o version \o ".tar.gz"

\* Dockerfile.template is a data file of the working directory.  A template is
\* a sequence of pieces, literal text or one of the two replacement fields.
Templates ==
    { << "FROM debian\nRUN curl ", "{url}", "\nENV CFITSIO=", "{version}", "\n" >>,
      << "ARG V=", "{version}", "\n" >> }

RECURSIVE Format(_, _, _)
\* str.format(url=..., version=...): every field replaced, the pieces joined.
Format(tpl, url, version) ==
    IF tpl = << >> THEN ""
    ELSE (CASE Head(tpl) = "{url}"     -> url
            [] Head(tpl) = "{version}" -> version
            [] OTHER                   -> Head(tpl))
         \o Format(Tail(tpl), url, version)

OutFilenameNoVersion(version) == "Dockerfile"

OutFilename(version) == "Dockerfile." \o version

BuildCmdWrongFile(version, out_filename) ==
    << "make", "VERSION=" \o version, "DOCKERFILE=Dockerfile.template" >>

BuildCmd(version, out_filename) ==
    << "make", "VERSION=" \o version, "DOCKERFILE=" \o out_filename >>

RunCmd(version) == << "make", "VERSION=" \o version, "run" >>

\* What sp.check_call can do: the command exits 0; it exits non-zero
\* (CalledProcessError); the process cannot be started (OSError from Popen).
Outcomes == { "exit0", "exit_nonzero", "oserror" }

CheckCallRaisesOnlyOSError(outcome) == outcome = "oserror"

\* sp.check_call raises unless the command exited with status zero.
CheckCallRaises(outcome) == outcome # "exit0"

CaughtNothing(outcome) == FALSE

\* `except sp.CalledProcessError`: the one exception the run loop handles.
Caught(outcome) == outcome = "exit_nonzero"

ResultLineSwapped(version, ok) == version \o (IF ok THEN " 0\n" ELSE " 1\n")

ResultLine(version, ok) == version \o (IF ok THEN " 1\n" ELSE " 0\n")

OpenAppend(old) == old

\* open(name, 'w'): the file is created, or truncated when it exists.
OpenTruncate(old) == << >>

Exists(name) == name \in DOMAIN fs

Contents(name) == IF Exists(name) THEN fs[name] ELSE << >>

\* The directory with file `name` holding `content`.
Put(name, content) ==
    [f \in DOMAIN fs \cup {name} |-> IF f = name THEN content ELSE fs[f]]

Event(ev, file, cmd, outcome) ==
    [ev |-> ev, file |-> file, cmd |-> cmd, outcome |-> outcome]

StaleResults == << "3080 0\n", "9999 1\n" >>

\* A directory holding `name` with `content` when `present`, else nothing.
File(present, name, content) ==
    IF present THEN name :> content ELSE << >>

InitDriver ==
    /\ pc = "start"
    /\ \E hasT \in BOOLEAN, tpl \in Templates, hasR \in BOOLEAN, hasD \in BOOLEAN :
          /\ (~hasT => tpl = CHOOSE t \in Templates : TRUE)
          /\ fs = File(hasT, "Dockerfile.template", tpl)
                    @@ File(hasR, "results.txt", StaleResults)
                    @@ File(hasD, OutFilename(VERSIONS[1]), << "stale" >>)
          /\ results0 = File(hasR, "results.txt", StaleResults)
    /\ template = << >>
    /\ i = 1
    /\ outfile = ""
    /\ log = << >>
    \* the other scripts are not running
    /\ gpc = "idle" /\ preset = "" /\ data = << >> /\ frame = << >>
    /\ bpc = "idle" /\ clock = 0 /\ start_time = 0 /\ times = << >>
    /\ ncalls = 0 /\ iter = 0 /\ min_time = 0
    /\ xpc = "idle" /\ disk = << >> /\ output = "" /\ hdu = << >>
    /\ exits = << >>

\* Lines 40-41: a missing template is an uncaught error.
ReadTemplate ==
    /\ UNCHANGED notDriver
    /\ pc = "start"
    /\ IF Exists("Dockerfile.template")
         THEN /\ template' = fs["Dockerfile.template"]
              /\ pc' = "render"
         ELSE /\ template' = template
              /\ pc' = "aborted"
    /\ UNCHANGED <<fs, i, outfile, log, results0>>

\* Lines 45-49: render the text, open the version's file for writing.
OpenDockerfile ==
    /\ UNCHANGED notDriver
    /\ pc = "render"
    /\ LET out_filename == OutFilename(VERSIONS[i])
       IN  /\ fs' = Put(out_filename, OpenTruncate(Contents(out_filename)))
           /\ outfile' = out_filename
    /\ pc' = "write"
    /\ UNCHANGED <<template, i, log, results0>>

\* Line 50 and the end of the with block: write the text, close the file.
WriteDockerfile ==
    /\ UNCHANGED notDriver
    /\ pc = "write"
    /\ LET version == VERSIONS[i]
           text == Format(template, TEMPLATE_URL(version), version)
       IN  fs' = Put(outfile, Append(fs[outfile], text))
    /\ log' = Append(log, Event("close", outfile, << >>, ""))
    /\ outfile' = ""
    /\ pc' = "build"
    /\ UNCHANGED <<template, i, results0>>

\* Lines 52-53: the build command; check_call's exception is not handled.
Build ==
    /\ UNCHANGED notDriver
    /\ pc = "build"
    /\ \E outcome \in Outcomes :
          /\ log' = Append(log, Event("call", "",
                        BuildCmd(VERSIONS[i], OutFilename(VERSIONS[i])), outcome))
          /\ IF CheckCallRaises(outcome)
               THEN pc' = "aborted" /\ i' = i
               ELSE IF i < Len(VERSIONS)
                      THEN pc' = "render" /\ i' = i + 1
                      ELSE pc' = "open_results" /\ i' = 1
    /\ UNCHANGED <<fs, template, outfile, results0>>

\* Line 55: results.txt opened for writing.
OpenResults ==
    /\ UNCHANGED notDriver
    /\ pc = "open_results"
    /\ fs' = Put("results.txt", OpenTruncate(Contents("results.txt")))
    /\ outfile' = "results.txt"
    /\ pc' = "run"
    /\ UNCHANGED <<template, i, log, results0>>

\* Lines 56-63: one iteration of the run loop.  An exception that is not
\* caught leaves the with block, which closes the file, and ends the script.
RunVersion ==
    /\ UNCHANGED notDriver
    /\ pc = "run"
    /\ \E outcome \in Outcomes :
          LET version == VERSIONS[i]
              called  == Append(log, Event("call", "", RunCmd(version), outcome))
              last    == i = Len(VERSIONS)
          IN  IF CheckCallRaises(outcome) /\ ~Caught(outcome)
                THEN /\ log' = Append(called, Event("close", outfile, << >>, ""))
                     /\ outfile' = ""
                     /\ pc' = "aborted"
                     /\ UNCHANGED <<fs, i>>
                ELSE /\ fs' = Put(outfile, Append(fs[outfile],
                                  ResultLine(version, ~CheckCallRaises(outcome))))
                     /\ log' = IF last
                                 THEN Append(called, Event("close", outfile, << >>, ""))
                                 ELSE called
                     /\ outfile' = IF last THEN "" ELSE outfile
                     /\ pc' = IF last THEN "done" ELSE "run"
                     /\ i' = IF last THEN i ELSE i + 1
    /\ UNCHANGED <<template, results0>>

NextDriver ==
    \/ ReadTemplate
    \/ OpenDockerfile
    \/ WriteDockerfile
    \/ Build
    \/ OpenResults
    \/ RunVersion

SpecDriver == InitDriver /\ [][NextDriver]_vars

(***************************************************************************)
(*                     Properties of the build driver                      *)
(***************************************************************************)

IsCall(e)  == e.ev = "call"
IsRun(e)   == IsCall(e) /\ e.cmd[3] = "run"
IsBuild(e) == IsCall(e) /\ e.cmd[3] # "run"
IsClose(e) == e.ev = "close"

RunCalls   == SelectSeq(log, IsRun)
BuildCalls == SelectSeq(log, IsBuild)

\* The files the driver has written and closed other than results.txt, one
\* entry per write.
DockerfileWrites ==
    SelectSeq(log, LAMBDA e : IsClose(e) /\ e.file # "results.txt")

Range(s) == { s[k] : k \in DOMAIN s }

\* results.txt as the directory holds it: absent, or its content.
ResultsFile == [f \in DOMAIN fs \cap {"results.txt"} |-> fs[f]]

RunPhaseStarted == pc \in {"run", "done"} \/ RunCalls # << >>

\* The run commands that have returned an exit status.
Returned == SelectSeq(RunCalls, LAMBDA e : e.outcome # "oserror")

\* C1: when the driver runs to completion, results.txt holds exactly one line
\* per entry of VERSIONS, in list order, the k-th being '<VERSIONS[k]> 1' when
\* the k-th run command exited with status zero and '<VERSIONS[k]> 0' when its
\* failure was caught.
C1_ResultsOneLinePerVersion ==
    pc = "done" =>
        /\ Exists("results.txt")
        /\ Len(fs["results.txt"]) = Len(VERSIONS)
        /\ Len(RunCalls) = Len(VERSIONS)
        /\ \A k \in 1..Len(VERSIONS) :
              /\ RunCalls[k].cmd = << "make", "VERSION=" \o VERSIONS[k], "run" >>
              /\ RunCalls[k].outcome \in {"exit0", "exit_nonzero"}
              /\ fs["results.txt"][k] =
                    VERSIONS[k] \o (IF RunCalls[k].outcome = "exit0"
                                      THEN " 1\n" ELSE " 0\n")

C1_Witness ==
    /\ pc = "done"
    /\ results0 # << >>
    /\ \E j, k \in 1..Len(RunCalls) :
          RunCalls[j].outcome = "exit0" /\ RunCalls[k].outcome = "exit_nonzero"

\* What C2 and its amendment require of the k-th run command once it has
\* failed: its '<version> 0' line is recorded and, unless it was the last
\* entry, the driver goes on to the next version's run command.
FailureIsolated(k) ==
    /\ Exists("results.txt")
    /\ Len(fs["results.txt"]) >= k
    /\ fs["results.txt"][k] = VERSIONS[k] \o " 0\n"
    /\ k < Len(VERSIONS) => (Len(RunCalls) > k \/ (pc = "run" /\ i = k + 1))

\* C2 as stated: every failure of a run command, whatever its kind, is caught,
\* recorded as '<version> 0', and followed by the next version's run command.
C2_EveryRunFailureIsolated ==
    \A k \in 1..Len(RunCalls) :
        RunCalls[k].outcome # "exit0" => FailureIsolated(k)

\* C2 amended: a run command that exits with a non-zero status
\* (CalledProcessError) is caught, recorded as '<version> 0', and followed by
\* the next version's run command; a run command that cannot be started is not
\* caught.
C2_NonZeroExitIsolated ==
    \A k \in 1..Len(RunCalls) :
        RunCalls[k].outcome = "exit_nonzero" => FailureIsolated(k)

C2_Witness ==
    \E k \in 1..Len(RunCalls) :
        /\ RunCalls[k].outcome = "exit_nonzero"
        /\ Len(RunCalls) > k
        /\ RunCalls[k + 1].cmd[2] = "VERSION=" \o VERSIONS[k + 1]

\* C3: when the build command of list position k exits non-zero (or cannot be
\* started), the driver aborts at once: nothing is rendered or built for a
\* later position, no run command is invoked, and results.txt is neither
\* created nor modified.
C3_BuildFailureAborts ==
    \A k \in 1..Len(BuildCalls) :
        BuildCalls[k].outcome # "exit0" =>
            /\ pc = "aborted"
            /\ Len(BuildCalls) = k
            /\ Len(DockerfileWrites) = k
            /\ outfile = ""
            /\ RunCalls = << >>
            /\ ResultsFile = results0

C3_Witness ==
    /\ Len(BuildCalls) = 2
    /\ BuildCalls[2].outcome = "exit_nonzero"
    /\ results0 # << >>
    /\ pc = "aborted"

BuildPhaseSucceeded == pc \in {"open_results", "run", "done"}

\* C4 as stated: after a build phase in which every build succeeds there is
\* one output file per entry of the version list, two for the duplicated
\* entry.
C4_OneFilePerEntry ==
    BuildPhaseSucceeded =>
        Cardinality({ e.file : e \in Range(DockerfileWrites) }) = Len(VERSIONS)

\* C4 amended: after a build phase in which every build succeeds the driver
\* has written once per entry of the version list, to the file
\* 'Dockerfile.<version>' of that entry; the two '3080' entries name the same
\* file, written twice with the same text, so there is one file per distinct
\* version, each holding the text rendered for its version.
C4_OneFilePerDistinctVersion ==
    BuildPhaseSucceeded =>
        /\ Len(DockerfileWrites) = Len(VERSIONS)
        /\ \A k \in 1..Len(VERSIONS) :
              DockerfileWrites[k].file = "Dockerfile." \o VERSIONS[k]
        /\ Cardinality({ e.file : e \in Range(DockerfileWrites) })
              = Cardinality(Range(VERSIONS))
        /\ \A v \in Range(VERSIONS) :
              /\ Exists("Dockerfile." \o v)
              /\ fs["Dockerfile." \o v] = << Format(template, TEMPLATE_URL(v), v) >>

C4_Witness ==
    /\ pc = "open_results"
    /\ Len(DockerfileWrites) > Cardinality(Range(VERSIONS))
    /\ results0 = << >>

\* C9: no run command is invoked before every entry's Dockerfile has been
\* written and its build command has succeeded; each build command is invoked
\* right after the file it names has been written and closed; builds go in
\* list order.
C9_PhasesOrdered ==
    /\ \A j \in 1..Len(log) :
          IsRun(log[j]) =>
              LET before == SubSeq(log, 1, j - 1)
                  built  == SelectSeq(before, IsBuild)
              IN  /\ Len(built) = Len(VERSIONS)
                  /\ \A k \in 1..Len(built) : built[k].outcome = "exit0"
                  /\ Len(SelectSeq(before, IsClose)) = Len(VERSIONS)
    /\ \A j \in 1..Len(log) :
          IsBuild(log[j]) =>
              /\ j > 1
              /\ IsClose(log[j - 1])
              /\ log[j].cmd[3] = "DOCKERFILE=" \o log[j - 1].file
    /\ \A k \in 1..Len(BuildCalls) :
          /\ BuildCalls[k].cmd[2] = "VERSION=" \o VERSIONS[k]
          /\ BuildCalls[k].cmd[3] = "DOCKERFILE=Dockerfile." \o VERSIONS[k]
    /\ pc = "build" =>
          /\ outfile = ""
          /\ fs["Dockerfile." \o VERSIONS[i]]
                = << Format(template, TEMPLATE_URL(VERSIONS[i]), VERSIONS[i]) >>

C9_Witness ==
    /\ pc = "run"
    /\ Len(RunCalls) = 1
    /\ Len(BuildCalls) = Len(VERSIONS)

\* C10: from the moment the run phase starts, also when it is cut short by an
\* error that is not caught, results.txt holds exactly one line per run
\* command that has returned, for the entries of the version list in order;
\* nothing of an earlier execution's results.txt is left.
C10_ResultsIsPrefix ==
    RunPhaseStarted =>
        /\ Exists("results.txt")
        /\ Len(fs["results.txt"]) = Len(Returned)
        /\ Len(Returned) <= Len(VERSIONS)
        /\ \A k \in 1..Len(Returned) :
              /\ Returned[k].cmd[2] = "VERSION=" \o VERSIONS[k]
              /\ fs["results.txt"][k] \in
                    { VERSIONS[k] \o " 0\n", VERSIONS[k] \o " 1\n" }

C10_Witness ==
    /\ pc = "aborted"
    /\ Len(Returned) = 2
    /\ Len(RunCalls) = 3
    /\ results0 # << >>

(***************************************************************************)
(*               generate_data.py : the frame generator                    *)
(***************************************************************************)

BIAS_LEVEL == 2000

\* Bounds: the frame is Rows x Cols pixels (2048 x 2048 in the script).
Rows == 1
Cols == 2

RAW_IMAGE_SHAPE == << Rows, Cols >>

OVERSCAN_ROWS == 40

\* The upper limit 2 ** 16 - 1 of the readout draws.
READOUT_LIMIT == 2 ^ 16 - 1

\* A float is modelled as an exact fraction, or as NaN or +infinity, the two
\* values a true division by zero produces in numpy.
Fin(n, d) == [kind |-> "fin", num |-> n, den |-> d]
NaN       == [kind |-> "nan", num |-> 0, den |-> 1]
Inf       == [kind |-> "inf", num |-> 1, den |-> 1]

IsFin(a) == a.kind = "fin"

FSub(a, b) ==
    IF IsFin(a) /\ IsFin(b)
      THEN Fin(a.num * b.den - b.num * a.den, a.den * b.den)
      ELSE NaN

\* True division of array elements, for a divisor >= 0: x / 0 is NaN for
\* x = 0 and infinite otherwise (numpy warns and goes on).
FDiv(a, b) ==
    IF ~(IsFin(a) /\ IsFin(b)) THEN NaN
    ELSE IF b.num = 0 THEN (IF a.num = 0 THEN NaN ELSE Inf)
    ELSE Fin(a.num * b.den, a.den * b.num)

\* a * (p / q) + (r / q) for the constants 0.3 = 3/10 and 0.7 = 7/10.
FScaleShift(a, p, r, q) ==
    IF IsFin(a) THEN Fin(p * a.num + r * a.den, q * a.den) ELSE a

\* a <= b; any comparison with NaN is false.
FLe(a, b) ==
    CASE a.kind = "nan" \/ b.kind = "nan" -> FALSE
      [] b.kind = "inf"                   -> TRUE
      [] a.kind = "inf"                   -> FALSE
      [] OTHER                            -> a.num * b.den <= b.num * a.den

\* The values the draws are taken from: the ends of the ranges of the script
\* and their neighbours.
SamplePoints ==
    { 0, BIAS_LEVEL - 1, BIAS_LEVEL, READOUT_LIMIT - 1, READOUT_LIMIT }

RandIntInclusive(low, high) == { v \in SamplePoints : low <= v /\ v <= high }

\* np.random.randint(low, high): integers of [low, high).
RandInt(low, high) == { v \in SamplePoints : low <= v /\ v < high }

\* np.random.uniform(low, high): floats of [low, high).
Uniform(low, high) == { Fin(v, 1) : v \in { w \in SamplePoints : low <= w /\ w < high } }

\* The four presets (functools.partial) and the file each is called with.
Presets ==
    { [name |-> "bias", filename |-> "bias.fits", shape |-> RAW_IMAGE_SHAPE,
       intdata |-> TRUE, overscan |-> FALSE, add_bias |-> FALSE, normalise |-> FALSE],
      [name |-> "dark", filename |-> "dark.fits", shape |-> RAW_IMAGE_SHAPE,
       intdata |-> FALSE, overscan |-> FALSE, add_bias |-> FALSE, normalise |-> FALSE],
      [name |-> "flat", filename |-> "flat.fits", shape |-> RAW_IMAGE_SHAPE,
       intdata |-> FALSE, overscan |-> FALSE, add_bias |-> FALSE, normalise |-> TRUE],
      [name |-> "image", filename |-> "science.fits", shape |-> RAW_IMAGE_SHAPE,
       intdata |-> FALSE, overscan |-> FALSE, add_bias |-> TRUE, normalise |-> FALSE] }

\* Lines 16-17: the shape of the array, overscan rows included.
FrameShape(args) ==
    IF args.overscan
      THEN << args.shape[1] + OVERSCAN_ROWS, args.shape[2] >>
      ELSE args.shape

\* Lines 19-30: the values one pixel can take.
PixelDraws(args) ==
    IF args.intdata
      THEN IF args.add_bias
             THEN { d + b : d \in RandInt(BIAS_LEVEL, READOUT_LIMIT),
                            b \in RandInt(0, BIAS_LEVEL) }
             ELSE RandInt(0, READOUT_LIMIT)
      ELSE IF args.add_bias
             THEN { Fin(d.num + b, 1) : d \in Uniform(BIAS_LEVEL, READOUT_LIMIT),
                                        b \in RandInt(0, BIAS_LEVEL) }
             ELSE Uniform(0, READOUT_LIMIT)

AsFloat(args, x) == IF args.intdata THEN Fin(x, 1) ELSE x

\* data.min() and data.max() of an array without NaN.
ArrayMin(arr) == CHOOSE m \in Range(arr) : \A x \in Range(arr) : FLe(m, x)
ArrayMax(arr) == CHOOSE m \in Range(arr) : \A x \in Range(arr) : FLe(x, m)

\* Lines 33-37: rescale by the peak-to-peak range, then into [0.7, 1.0].
Normalised(arr) ==
    LET lo == ArrayMin(arr)
        r  == FSub(ArrayMax(arr), lo)
    IN  [k \in DOMAIN arr |-> FScaleShift(FDiv(FSub(arr[k], lo), r), 3, 7, 10)]

InitGen ==
    /\ gpc = "call"
    /\ preset \in Presets
    /\ data = << >>
    /\ \E clobber \in BOOLEAN :
          frame = File(clobber, preset.filename, << >>)
    \* the other scripts are not running
    /\ pc = "idle" /\ fs = << >> /\ template = << >> /\ i = 0
    /\ outfile = "" /\ log = << >> /\ results0 = << >>
    /\ bpc = "idle" /\ clock = 0 /\ start_time = 0 /\ times = << >>
    /\ ncalls = 0 /\ iter = 0 /\ min_time = 0
    /\ xpc = "idle" /\ disk = << >> /\ output = "" /\ hdu = << >>
    /\ exits = << >>

\* Lines 16-30: the array is drawn.
DrawData ==
    /\ UNCHANGED notGen
    /\ gpc = "call"
    /\ LET shape == FrameShape(preset)
       IN  data' \in [1..(shape[1] * shape[2]) -> PixelDraws(preset)]
    /\ gpc' = IF preset.normalise THEN "normalise" ELSE "write"
    /\ UNCHANGED <<preset, frame>>

\* Lines 32-37.
Normalise ==
    /\ UNCHANGED notGen
    /\ gpc = "normalise"
    /\ data' = Normalised([k \in DOMAIN data |-> AsFloat(preset, data[k])])
    /\ gpc' = "write"
    /\ UNCHANGED <<preset, frame>>

\* Lines 39-40: the file is written, replacing one that exists (clobber=True).
WriteFrame ==
    /\ UNCHANGED notGen
    /\ gpc = "write"
    /\ frame' = [f \in DOMAIN frame \cup {preset.filename} |->
                    IF f = preset.filename THEN data ELSE frame[f]]
    /\ gpc' = "done"
    /\ UNCHANGED <<preset, data>>

NextGen == DrawData \/ Normalise \/ WriteFrame

SpecGen == InitGen /\ [][NextGen]_vars

(***************************************************************************)
(*                   Properties of the frame generator                     *)
(***************************************************************************)

Written(name) ==
    gpc = "done" /\ preset.name = name /\ preset.filename \in DOMAIN frame

\* C5: every pixel of a frame written by the 'bias' preset lies in the range
\* of the bias draws, [0, BIAS_LEVEL), or in the range of the readout draws,
\* [BIAS_LEVEL, 2^16 - 1).
C5_BiasFrameInRange ==
    Written("bias") =>
        \A k \in DOMAIN frame["bias.fits"] :
            LET p == frame["bias.fits"][k]
            IN  \/ 0 <= p /\ p < BIAS_LEVEL
                \/ BIAS_LEVEL <= p /\ p < 2 ^ 16 - 1

C5_Witness ==
    /\ Written("bias")
    /\ \E j, k \in DOMAIN frame["bias.fits"] :
          frame["bias.fits"][j] = 0 /\ frame["bias.fits"][k] = 2 ^ 16 - 2

\* C6: every pixel of a frame written by the 'flat' preset is a number of
\* [0.7, 1.0], so that the frame's minimum is >= 0.7 and its maximum <= 1.0,
\* also when all drawn values are equal.
C6_FlatFrameInRange ==
    Written("flat") =>
        \A k \in DOMAIN frame["flat.fits"] :
            LET p == frame["flat.fits"][k]
            IN  /\ p.kind = "fin"
                /\ 7 * p.den <= 10 * p.num
                /\ p.num <= p.den

(***************************************************************************)
(*                 python_run.py : the read/arithmetic benchmark           *)
(***************************************************************************)

\* The repetition count of the call timeit(main, n=64).
N_REPEATS == 64

\* Bound: time.time() reads the system's wall clock, which can be set while
\* the script runs; a reading is any value of 0..MaxClock.
MaxClock == 1

ClockValues == 0..MaxClock

\* min(times), for the multiset of samples (their order does not matter to
\* min and len, and `times` is kept as the multiset of the list's elements).
MinOf(samples) ==
    CHOOSE m \in BagToSet(samples) : \A d \in BagToSet(samples) : m <= d

InitBench ==
    /\ bpc = "loop"
    /\ clock \in ClockValues
    /\ start_time = 0
    /\ times = EmptyBag
    /\ ncalls = 0
    /\ iter = 0
    /\ min_time = 0
    \* the other scripts are not running
    /\ pc = "idle" /\ fs = << >> /\ template = << >> /\ i = 0
    /\ outfile = "" /\ log = << >> /\ results0 = << >>
    /\ gpc = "idle" /\ preset = "" /\ data = << >> /\ frame = << >>
    /\ xpc = "idle" /\ disk = << >> /\ output = "" /\ hdu = << >>
    /\ exits = << >>

\* Line 16: start_time = time.time().
StartTimer ==
    /\ UNCHANGED notBench
    /\ bpc = "loop"
    /\ \E t \in ClockValues : clock' = t /\ start_time' = t
    /\ bpc' = "call"
    /\ UNCHANGED <<times, ncalls, iter, min_time>>

\* Line 17: f(), here main (lines 23-29): the four frames are read and the
\* corrected frame is computed and dropped.
CallMain ==
    /\ UNCHANGED notBench
    /\ bpc = "call"
    /\ ncalls' = ncalls + 1
    /\ bpc' = "stop"
    /\ UNCHANGED <<clock, start_time, times, iter, min_time>>

\* Lines 18-19: end_time = time.time(); times.append(end_time - start_time).
StopTimer ==
    /\ UNCHANGED notBench
    /\ bpc = "stop"
    /\ \E end_time \in ClockValues :
          /\ clock' = end_time
          /\ times' = times (+) SetToBag({end_time - start_time})
    /\ iter' = iter + 1
    /\ bpc' = IF iter + 1 < N_REPEATS THEN "loop" ELSE "report"
    /\ UNCHANGED <<start_time, ncalls, min_time>>

\* Lines 20 and 32-33: the minimum is returned and printed.
Report ==
    /\ UNCHANGED notBench
    /\ bpc = "report"
    /\ min_time' = MinOf(times)
    /\ bpc' = "done"
    /\ UNCHANGED <<clock, start_time, times, ncalls, iter>>

NextBench == StartTimer \/ CallMain \/ StopTimer \/ Report

SpecBench == InitBench /\ [][NextBench]_vars

\* C7: every timing sample recorded is non-negative, and when the benchmark
\* has finished, main has been called exactly 64 times, exactly 64 samples
\* have been recorded, and the value reported is the least of them.
C7_SamplesNonNegative ==
    /\ \A d \in BagToSet(times) : d >= 0
    /\ bpc = "done" =>
          /\ ncalls = 64
          /\ BagCardinality(times) = 64
          /\ min_time \in BagToSet(times)
          /\ \A d \in BagToSet(times) : min_time <= d

(***************************************************************************)
(*          vector_columns.py : the vector-column fixture generator        *)
(***************************************************************************)

\* Bound: the number of invocations of the script in a run of the model.
MaxInvocations == 2

\* The paths -o can name.
Paths == { "a.fits", "b.fits" }

\* A decimal literal num / den, the float64 arrays of the script holding
\* 11.1, 12.3 and 15.2.
Dec(num, den) == [num |-> num, den |-> den]

\* A format code is its repeat count, when written, and its type letter.
Repeat(format) == IF Len(format) = 2 THEN format[1] ELSE 1
TypeCode(format) == format[Len(format)]

\* The float32 nearest to the positive fraction x: 24 significant bits.
Float32(x) ==
    LET e    == CHOOSE k \in 0..6 : 2 ^ k * x.den <= x.num /\ x.num < 2 ^ (k + 1) * x.den
        ulps == 2 ^ (23 - e)
        q    == (x.num * ulps) \div x.den
        rem  == (x.num * ulps) % x.den
        m    == IF 2 * rem > x.den \/ (2 * rem = x.den /\ q % 2 = 1) THEN q + 1 ELSE q
    IN  [num |-> m, den |-> ulps]

\* One cell of a column: the row's value laid out in `Repeat` elements of the
\* column's type; text is padded with blanks to the width of the column.
Cell(format, value) ==
    CASE TypeCode(format) = "A" ->
            [k \in 1..Repeat(format) |-> IF k <= Len(value) THEN value[k] ELSE " "]
      [] TypeCode(format) = "E" -> << Float32(value) >>
      [] OTHER -> [k \in 1..Repeat(format) |-> value[k]]

Column(name, format, array) ==
    [name |-> name, format |-> format,
     cells |-> [r \in DOMAIN array |-> Cell(format, array[r])]]

\* Lines 14-24.
gen_file ==
    LET a1 == << << "N", "G", "C", "1", "0", "0", "1" >>,
                 << "N", "G", "C", "1", "0", "0", "2" >>,
                 << "N", "G", "C", "1", "0", "0", "3" >> >>
        a2 == << Dec(111, 10), Dec(123, 10), Dec(152, 10) >>
        a3 == << << 1, 2 >>, << 3, 4 >>, << 5, 6 >> >>
        col1 == Column("target", << 20, "A" >>, a1)
        col2 == Column("V_mag", << "E" >>, a2)
        col3 == Column("index", << 2, "K" >>, a3)
    IN  [name |-> "info", columns |-> << col1, col2, col3 >>]

OverwriteFalse == FALSE

\* writeto(..., overwrite=True), line 33.
Overwrite == TRUE

\* A file that is no table of this script.
OtherFile == [name |-> "other", columns |-> << >>]

InitFix ==
    /\ xpc = "parse"
    /\ disk \in UNION { [S -> {OtherFile, gen_file}] : S \in SUBSET Paths }
    /\ output = ""
    /\ hdu = << >>
    /\ exits = << >>
    \* the other scripts are not running
    /\ pc = "idle" /\ fs = << >> /\ template = << >> /\ i = 0
    /\ outfile = "" /\ log = << >> /\ results0 = << >>
    /\ gpc = "idle" /\ preset = "" /\ data = << >> /\ frame = << >>
    /\ bpc = "idle" /\ clock = 0 /\ start_time = 0 /\ times = << >>
    /\ ncalls = 0 /\ iter = 0 /\ min_time = 0

\* The file at `path` after an invocation, absent when there is none.
Left(d, path) == [f \in DOMAIN d \cap {path} |-> d[f]]

\* Lines 28-30: -o is required; without it argparse ends the script with 2.
ParseArgs ==
    /\ UNCHANGED notFix
    /\ xpc = "parse"
    /\ Len(exits) < MaxInvocations
    /\ \/ /\ \E path \in Paths : output' = path
          /\ xpc' = "gen"
          /\ exits' = exits
       \/ /\ output' = ""
          /\ xpc' = "parse"
          /\ exits' = Append(exits, [path |-> "", code |-> 2, left |-> << >>])
    /\ UNCHANGED <<disk, hdu>>

\* Line 32.
GenFile ==
    /\ UNCHANGED notFix
    /\ xpc = "gen"
    /\ hdu' = gen_file
    /\ xpc' = "write"
    /\ UNCHANGED <<disk, output, exits>>

\* Line 33: the table is written; a file in the way is replaced when
\* overwrite is set, and is an OSError when it is not.
WriteTo ==
    /\ UNCHANGED notFix
    /\ xpc = "write"
    /\ IF output \in DOMAIN disk /\ ~Overwrite
         THEN /\ disk' = disk
              /\ exits' = Append(exits, [path |-> output, code |-> 1,
                                         left |-> Left(disk, output)])
         ELSE /\ disk' = [f \in DOMAIN disk \cup {output} |->
                             IF f = output THEN hdu ELSE disk[f]]
              /\ exits' = Append(exits, [path |-> output, code |-> 0,
                                         left |-> Left(disk', output)])
    /\ hdu' = << >>
    /\ output' = ""
    /\ xpc' = "parse"

NextFix == ParseArgs \/ GenFile \/ WriteTo

SpecFix == InitFix /\ [][NextFix]_vars

\* The table the claim describes: columns target, V_mag and index, 3 rows,
\* and 20 characters, 1 float and 2 integers per row.
IsFixtureTable(t) ==
    /\ [c \in DOMAIN t.columns |-> t.columns[c].name] = << "target", "V_mag", "index" >>
    /\ \A c \in DOMAIN t.columns : Len(t.columns[c].cells) = 3
    /\ \A r \in 1..3 :
          /\ Len(t.columns[1].cells[r]) = 20
          /\ Len(t.columns[2].cells[r]) = 1
          /\ Len(t.columns[3].cells[r]) = 2

\* C8: two successive invocations with the same output path both succeed,
\* whether or not a file was there before, each leaves the described table at
\* the path, and the file after the second equals the file after the first.
C8_IdempotentOverwrite ==
    \A k \in 1..(Len(exits) - 1) :
        (exits[k].path # "" /\ exits[k + 1].path = exits[k].path) =>
            /\ exits[k].code = 0
            /\ exits[k + 1].code = 0
            /\ exits[k].path \in DOMAIN exits[k].left
            /\ IsFixtureTable(exits[k].left[exits[k].path])
            /\ exits[k + 1].left = exits[k].left

C8_Witness ==
    /\ Len(exits) = 2
    /\ exits[1].path = "a.fits"
    /\ exits[2].path = "a.fits"
    /\ disk["a.fits"].columns[2].cells[1][1] = [num |-> 11639194, den |-> 1048576]

=============================================================================
